---- MODULE Spec2Model ----
(***************************************************************************)
(* client-side-sanitizer V1.2.0: the preset registry (PRESETS, setPresets) *)
(* and sanitizeInput, with the part of the JavaScript runtime they rest on *)
(* (typeof, truthiness, property lookup through Object.prototype, the      *)
(* RegExp constructor on a character-class pattern, String.prototype       *)
(* .replace).                                                              *)
(*                                                                         *)
(* A JavaScript string is a sequence of one-character strings (its UTF-16  *)
(* code units). A JavaScript value is a record: t its tag, s its text (of  *)
(* a string, a number, a function), own its own properties (of an object), *)
(* atoms and lastIndex the pattern and the mutable index of a RegExp.      *)
(***************************************************************************)
EXTENDS Integers, Sequences, FiniteSets

\* ------------------------------------------------------------ characters

\* Printable ASCII in code order; Ascii[i] has code unit i + 31 (the grave
\* accent, code 96, is spelled out: it is not needed as a character).
Ascii ==
    << " ", "!", "\"", "#", "$", "%", "&", "'", "(", ")", "*", "+",
       ",", "-", ".", "/", "0", "1", "2", "3", "4", "5", "6", "7",
       "8", "9", ":", ";", "<", "=", ">", "?", "@", "A", "B", "C",
       "D", "E", "F", "G", "H", "I", "J", "K", "L", "M", "N", "O",
       "P", "Q", "R", "S", "T", "U", "V", "W", "X", "Y", "Z", "[",
       "\\", "]", "^", "_", "grave", "a", "b", "c", "d", "e", "f", "g",
       "h", "i", "j", "k", "l", "m", "n", "o", "p", "q", "r", "s",
       "t", "u", "v", "w", "x", "y", "z", "{", "|", "}", "~" >>

AsciiChars == {Ascii[i] : i \in 1..Len(Ascii)}

CodeTable == [c \in AsciiChars |-> 31 + (CHOOSE i \in 1..Len(Ascii) : Ascii[i] = c)]

\* The UTF-16 code unit of a character.
Code(c) == CodeTable[c]

CodeRange(lo, hi) == {Code(c) : c \in {d \in AsciiChars : Code(lo) <= Code(d) /\ Code(d) <= Code(hi)}}

Digits == CodeRange("0", "9")
Letters == CodeRange("a", "z") \cup CodeRange("A", "Z")

\* ------------------------------------------------------ JavaScript values

Val(t, s) == [t |-> t, s |-> s, own |-> <<>>, atoms |-> <<>>, lastIndex |-> 0]

Undefined == Val("undefined", <<>>)
Null == Val("null", <<>>)
Str(s) == Val("string", s)
\* A number, s its decimal digits.
Num(digits) == Val("number", digits)
\* A function, s the text ToString gives for it.
Fun(source) == Val("function", source)
\* A plain object whose own enumerable properties are the function own, from
\* property names to values.
Obj(own) == [Val("object", <<>>) EXCEPT !.own = own]
\* A RegExp object with the g flag: its pattern, a concatenation of
\* one-character atoms, each a (possibly negated) set of code units, and
\* lastIndex 0.
Atom(neg, codes) == [neg |-> neg, codes |-> codes]
RegExp(atoms) == [Val("regexp", <<>>) EXCEPT !.atoms = atoms]

\* typeof
TypeOf(x) ==
    CASE x.t = "null" -> "object"
      [] x.t = "regexp" -> "object"
      [] OTHER -> x.t

\* ToBoolean
Truthy(x) ==
    CASE x.t = "undefined" -> FALSE
      [] x.t = "null" -> FALSE
      [] x.t = "string" -> x.s # <<>>
      [] x.t = "number" -> x.s # <<"0">>
      [] OTHER -> TRUE

\* ToString, for the values the model converts.
ToString(x) ==
    CASE x.t = "undefined" -> <<"u", "n", "d", "e", "f", "i", "n", "e", "d">>
      [] x.t = "null" -> <<"n", "u", "l", "l">>
      [] OTHER -> x.s

\* Function.prototype.toString of the Object constructor.
ObjectSource ==
    <<"f", "u", "n", "c", "t", "i", "o", "n", " ", "O", "b", "j", "e", "c",
      "t", "(", ")", " ", "{", " ", "[", "n", "a", "t", "i", "v", "e", " ",
      "c", "o", "d", "e", "]", " ", "}">>

CONSTRUCTOR == <<"c", "o", "n", "s", "t", "r", "u", "c", "t", "o", "r">>

\* What a plain object inherits from Object.prototype (of its members, the
\* one the model looks up).
ObjectPrototype == [k \in {CONSTRUCTOR} |-> Fun(ObjectSource)]

\* O[P] for a plain object with the own properties own: the own property,
\* else the one inherited from Object.prototype, else undefined.
Get(own, P) ==
    IF P \in DOMAIN own THEN own[P]
    ELSE IF P \in DOMAIN ObjectPrototype THEN ObjectPrototype[P]
    ELSE Undefined

\* ------------------------------------------------ new RegExp(pattern, 'g')
\* The pattern grammar of a non-unicode regular expression, for patterns
\* without quantifiers, groups, anchors and alternation: a sequence of
\* character classes, escaped characters and literal characters.

ClassFailure == [ok |-> FALSE, codes |-> {}, next |-> 0]

\* The code units \s matches (white space and line terminators).
WhiteSpace ==
    (9..13) \cup {32, 160, 5760} \cup (8192..8202) \cup {8232, 8233, 8239, 8287, 12288, 65279}

\* \d, \s and \w inside a class stand for a set of characters.
IsClassEscape(c) == c \in {"d", "s", "w"}

ClassEscape(c) ==
    CASE c = "d" -> Digits
      [] c = "s" -> WhiteSpace
      [] c = "w" -> Letters \cup Digits \cup {Code("_")}

\* ClassAtom at p[i]: a character, or a backslash and what it escapes: a
\* class escape, else the character itself (an identity escape). single
\* says that the atom is one character, which may bound a range.
ClassAtom(p, i) ==
    IF p[i] = "\\"
    THEN IF i + 1 > Len(p)
         THEN [ok |-> FALSE, codes |-> {}, single |-> FALSE, next |-> i]
         ELSE IF IsClassEscape(p[i + 1])
         THEN [ok |-> TRUE, codes |-> ClassEscape(p[i + 1]), single |-> FALSE, next |-> i + 2]
         ELSE [ok |-> TRUE, codes |-> {Code(p[i + 1])}, single |-> TRUE, next |-> i + 2]
    ELSE [ok |-> TRUE, codes |-> {Code(p[i])}, single |-> TRUE, next |-> i + 1]

\* The one code unit of a single-character atom.
TheCode(a) == CHOOSE n \in a.codes : TRUE

\* ClassRanges from p[i] up to the closing bracket: atoms and ranges
\* atom-atom; a dash that does not stand between two atoms is a literal, and
\* so is one beside a class escape. Fails on a class that is not closed and on
\* a range out of order.
RECURSIVE ClassRanges(_, _, _)

\* The class continued after the range a-b.
AfterRange(p, a, b, codes) ==
    IF ~b.ok THEN ClassFailure
    ELSE IF ~a.single \/ ~b.single
    THEN ClassRanges(p, b.next, codes \cup a.codes \cup {Code("-")} \cup b.codes)
    ELSE IF TheCode(a) > TheCode(b) THEN ClassFailure
    ELSE ClassRanges(p, b.next, codes \cup (TheCode(a) .. TheCode(b)))

\* The class continued after the atom a.
AfterAtom(p, a, codes) ==
    IF ~a.ok THEN ClassFailure
    ELSE IF a.next + 1 <= Len(p) /\ p[a.next] = "-" /\ p[a.next + 1] # "]"
    THEN AfterRange(p, a, ClassAtom(p, a.next + 1), codes)
    ELSE ClassRanges(p, a.next, codes \cup a.codes)

ClassRanges(p, i, codes) ==
    IF i > Len(p) THEN ClassFailure
    ELSE IF p[i] = "]" THEN [ok |-> TRUE, codes |-> codes, next |-> i + 1]
    ELSE AfterAtom(p, ClassAtom(p, i), codes)

SyntaxError == [ok |-> FALSE, atoms |-> <<>>]

\* The atoms of the pattern from p[i] on: a class [...] or [^...], an escaped
\* character, or a literal character (a closing bracket outside a class is a
\* literal).
RECURSIVE Pattern(_, _, _)

\* The pattern continued after the class r.
AfterClass(p, neg, r, atoms) ==
    IF ~r.ok THEN SyntaxError
    ELSE Pattern(p, r.next, Append(atoms, Atom(neg, r.codes)))

\* Whether the class opening at p[i] is negated.
Negated(p, i) == i + 1 <= Len(p) /\ p[i + 1] = "^"

Pattern(p, i, atoms) ==
    IF i > Len(p) THEN [ok |-> TRUE, atoms |-> atoms]
    ELSE IF p[i] = "["
    THEN AfterClass(p, Negated(p, i),
                    ClassRanges(p, IF Negated(p, i) THEN i + 2 ELSE i + 1, {}), atoms)
    ELSE IF p[i] = "\\"
    THEN IF i + 1 > Len(p) THEN SyntaxError
         ELSE Pattern(p, i + 2, Append(atoms, Atom(FALSE, {Code(p[i + 1])})))
    ELSE Pattern(p, i + 1, Append(atoms, Atom(FALSE, {Code(p[i])})))

\* new RegExp(pattern, 'g'): [ok, atoms]; ok is FALSE when the constructor
\* throws a SyntaxError.
NewRegExp(pattern) == Pattern(pattern, 1, <<>>)

\* ------------------------------------------------ String.prototype.replace

\* Whether the atoms match S at position i (1-based).
MatchesAt(atoms, S, i) ==
    /\ i + Len(atoms) - 1 <= Len(S)
    /\ \A k \in 1..Len(atoms) : (Code(S[i + k - 1]) \in atoms[k].codes) # atoms[k].neg

\* The least element of a non-empty set of numbers.
Least(hits) == CHOOSE h \in hits : \A g \in hits : h <= g

\* The result of exec, given the positions (0-based) at or after lastIndex
\* where the pattern matches.
ExecResult(atoms, hits) ==
    IF hits = {} THEN [index |-> -1, lastIndex |-> 0]
    ELSE [index |-> Least(hits), lastIndex |-> Least(hits) + Len(atoms)]

\* RegExpBuiltinExec of a global RegExp: the first match at or after
\* lastIndex, which becomes the end of the match; no match sets lastIndex to 0.
RegExpBuiltinExec(atoms, S, lastIndex) ==
    ExecResult(atoms, {i \in lastIndex .. Len(S) - 1 : MatchesAt(atoms, S, i + 1)})

\* The loop of RegExp.prototype[Symbol.replace] with the empty replacement:
\* exec until it fails, keeping what lies between the matches.
RECURSIVE ReplaceLoop(_, _, _, _)

\* The loop after the exec that gave r.
AfterExec(atoms, S, lastIndex, kept, r) ==
    IF r.index = -1
    THEN [value |-> kept \o SubSeq(S, lastIndex + 1, Len(S)), lastIndex |-> r.lastIndex]
    ELSE ReplaceLoop(atoms, S, r.lastIndex, kept \o SubSeq(S, lastIndex + 1, r.index))

ReplaceLoop(atoms, S, lastIndex, kept) ==
    AfterExec(atoms, S, lastIndex, kept, RegExpBuiltinExec(atoms, S, lastIndex))

\* The positions (1-based) at which the string sub occurs in S.
Occurrences(S, sub) ==
    {i \in 1..(Len(S) - Len(sub) + 1) : SubSeq(S, i, i + Len(sub) - 1) = sub}

\* S without the Len(sub) characters at the first of the positions hits.
WithoutFirst(S, sub, hits) ==
    IF hits = {} THEN S
    ELSE SubSeq(S, 1, Least(hits) - 1) \o SubSeq(S, Least(hits) + Len(sub), Len(S))

\* RegExpReplace without the g flag: the first match only is removed.
RegExpReplaceFirst(atoms, S, lastIndex) ==
    [value |-> WithoutFirst(S, atoms,
                            {i + 1 : i \in {j \in 0 .. Len(S) - 1 : MatchesAt(atoms, S, j + 1)}}),
     lastIndex |-> lastIndex]

\* RegExpReplace as one exec from the lastIndex the RegExp was left with.
RegExpReplaceOnce(atoms, S, lastIndex) ==
    [value |-> WithoutFirst(S, atoms,
                            {i + 1 : i \in {j \in lastIndex .. Len(S) - 1 : MatchesAt(atoms, S, j + 1)}}),
     lastIndex |-> RegExpBuiltinExec(atoms, S, lastIndex).lastIndex]

\* RegExp.prototype[Symbol.replace](S, '') of a global RegExp whose
\* lastIndex is lastIndex on entry: lastIndex is set to 0 first.
RegExpReplace(atoms, S, lastIndex) == ReplaceLoop(atoms, S, 0, <<>>)

\* The RegExp rx after replace has left its lastIndex at lastIndex.
WithLastIndex(rx, lastIndex) == [rx EXCEPT !.lastIndex = lastIndex]

\* What replace gives when the RegExp loop gave r.
Replaced(searchValue, r) ==
    [value |-> r.value, search |-> WithLastIndex(searchValue, r.lastIndex)]

\* S.replace(searchValue, ''): [value, search], search being searchValue
\* after the call. A RegExp replaces every match; any other value is
\* converted to a string whose first occurrence is removed.
StringReplace(S, searchValue) ==
    IF searchValue.t = "regexp"
    THEN Replaced(searchValue, RegExpReplace(searchValue.atoms, S, searchValue.lastIndex))
    ELSE [value |-> WithoutFirst(S, ToString(searchValue),
                                 Occurrences(S, ToString(searchValue))),
          search |-> searchValue]

\* ------------------------------------------------------------- the registry

TEXT == <<"t", "e", "x", "t">>
NUMBER == <<"n", "u", "m", "b", "e", "r">>
EMAIL == <<"e", "m", "a", "i", "l">>
URL == <<"u", "r", "l">>

\* A regular expression literal /source/g.
Literal(source) == RegExp(NewRegExp(source).atoms)

\* The own properties of PRESETS as the module is loaded.
DefaultPresets ==
    [k \in {TEXT, NUMBER, EMAIL, URL} |->
        CASE k = TEXT -> Literal(<<"[", "'", "\"", "<", ">", "&", "/", "]">>)
          [] k = NUMBER -> Literal(<<"[", "^", "0", "-", "9", "]">>)
          [] k = EMAIL -> Literal(<<"[", "^", "a", "-", "z", "A", "-", "Z", "0", "-", "9",
                                    "@", ".", "_", "-", "]">>)
          [] k = URL -> Literal(<<"[", "^", "a", "-", "z", "A", "-", "Z", "0", "-", "9",
                                  ".", "_", "\\", "-", "/", ":", "?", "=", "&", "%", "]">>)]

DEFAULT_TYPE == TEXT

\* The name of the property at index i - 1 (one digit).
IndexKey(i) == <<Ascii[16 + i]>>

\* The own enumerable properties an object spread copies from x: those of an
\* object, the characters of a string under their indices, nothing of any
\* other value.
OwnEnumerable(x) ==
    CASE x.t = "object" -> x.own
      [] x.t = "string" -> [k \in {IndexKey(i) : i \in 1..Len(x.s)} |->
                              Str(<<x.s[CHOOSE i \in 1..Len(x.s) : IndexKey(i) = k]>>)]
      [] OTHER -> <<>>

\* Spread with the operands exchanged: { ...newPresets, ...P }.
SpreadUnder(P, newPresets) ==
    [k \in DOMAIN P \cup DOMAIN OwnEnumerable(newPresets) |->
        IF k \in DOMAIN P THEN P[k] ELSE OwnEnumerable(newPresets)[k]]

\* { ...P, ...newPresets }
Spread(P, newPresets) ==
    LET m == OwnEnumerable(newPresets) IN
    [k \in DOMAIN P \cup DOMAIN m |-> IF k \in DOMAIN m THEN m[k] ELSE P[k]]

\* IsObject as a truthiness test of newPresets.
IsObjectTruthy(newPresets) == Truthy(newPresets)

\* typeof newPresets === 'object' && newPresets !== null
IsObject(newPresets) == TypeOf(newPresets) = "object" /\ newPresets # Null

\* setPresets(newPresets) with the registry P: the registry and the console
\* method called.
setPresets(newPresets, P) ==
    IF IsObject(newPresets)
    THEN [presets |-> Spread(P, newPresets), console |-> "log"]
    ELSE [presets |-> P, console |-> "error"]

\* ------------------------------------------------------------ sanitizeInput

TYPE == <<"t", "y", "p", "e">>
ALLOW == <<"a", "l", "l", "o", "w">>

Return(safeValue, removedCount) ==
    [kind |-> "return", safeValue |-> safeValue, removedCount |-> removedCount]
\* The call ends in an exception.
Throw(error) == [kind |-> error, safeValue |-> <<>>, removedCount |-> 0]

\* NotString as a test for a missing input: !input.
NotStringFalsy(input) == ~Truthy(input)

\* typeof input !== 'string'
NotString(input) == TypeOf(input) # "string"

\* typeof config === 'string' ? { type: config } : config, config defaulting
\* to DEFAULT_TYPE when it is omitted (undefined).
Options(config) ==
    LET cfg == IF config = Undefined THEN Str(DEFAULT_TYPE) ELSE config IN
    IF TypeOf(cfg) = "string" THEN Obj([k \in {TYPE} |-> cfg]) ELSE cfg

\* Whether options.allow can be read: reading a property of null or
\* undefined throws a TypeError.
Readable(options) == options.t \notin {"null", "undefined"}

\* options[name]; a primitive has neither property.
Property(options, name) ==
    IF options.t = "object" THEN Get(options.own, name) ELSE Undefined

\* `[^${options.allow}]`
Template(allow) == <<"[", "^">> \o ToString(allow) \o <<"]">>

\* CatchRule without the assignment to finalRegex, which stays undefined.
CatchRuleUnset(P) == [key |-> <<>>, rule |-> Undefined]

\* The rule of the catch block, PRESETS[DEFAULT_TYPE], and its key.
CatchRule(P) == [key |-> DEFAULT_TYPE, rule |-> Get(P, DEFAULT_TYPE)]

\* PRESETS[type] || PRESETS[DEFAULT_TYPE], and the key it was found under.
PresetRule(P, type) ==
    IF Truthy(Get(P, type))
    THEN [key |-> type, rule |-> Get(P, type)]
    ELSE CatchRule(P)

\* options.type || DEFAULT_TYPE
TypeOrDefault(type) == IF Truthy(type) THEN ToString(type) ELSE DEFAULT_TYPE

\* The rule for a custom whitelist, built being what new RegExp gave: the
\* rule, the registry key it is stored under (<<>> for a RegExp built for the
\* call), and the console method called.
CustomRule(built, P) ==
    IF built.ok
    THEN [key |-> <<>>, rule |-> RegExp(built.atoms), console |-> "none"]
    ELSE [key |-> CatchRule(P).key, rule |-> CatchRule(P).rule, console |-> "error"]

\* The rule for a preset.
NamedRule(r) == [key |-> r.key, rule |-> r.rule, console |-> "none"]

\* finalRegex, allow and type being options.allow and options.type.
FinalRegex(allow, type, P) ==
    IF Truthy(allow)
    THEN CustomRule(NewRegExp(Template(allow)), P)
    ELSE NamedRule(PresetRule(P, TypeOrDefault(type)))

\* The registry after replace has run on the rule stored under key.
Stored(P, key, rule) == IF key \in DOMAIN P THEN [P EXCEPT ![key] = rule] ELSE P

\* What the call gives, r being what replace gave for finalRegex f.
Outcome(input, f, r, P) ==
    [result |-> Return(r.value, Len(input.s) - Len(r.value)),
     presets |-> Stored(P, f.key, r.search),
     console |-> f.console]

\* input.replace(finalRegex, ''), which is not a function unless input is a
\* string.
Replace(input, f, P) ==
    IF input.t # "string"
    THEN [result |-> Throw("TypeError"), presets |-> P, console |-> f.console]
    ELSE Outcome(input, f, StringReplace(input.s, f.rule), P)

\* The statements after the type check, for an input that passed it:
\* input.length throws on null and undefined, and so does options.allow.
Body(input, options, P) ==
    IF input.t \in {"null", "undefined"} \/ ~Readable(options)
    THEN [result |-> Throw("TypeError"), presets |-> P, console |-> "none"]
    ELSE Replace(input, FinalRegex(Property(options, ALLOW), Property(options, TYPE), P), P)

\* sanitizeInput(input, config) with the registry P: the result, the
\* registry and the console method called. An omitted config is undefined.
sanitizeInput(input, config, P) ==
    IF NotString(input)
    THEN [result |-> Return(<<>>, 0), presets |-> P, console |-> "none"]
    ELSE Body(input, Options(config), P)

\* ------------------------------------------------------ bounds and inputs

\* The longest generated input string.
MaxLen == 2
\* The longest generated allow fragment.
MaxFrag == 1

InputChars == {"a", "1", "<", "]"}
\* Characters of allow fragments: two letters, the range dash, the closing
\* bracket and the backslash.
FragChars == {"a", "-", "]", "\\"}

StringsUpTo(chars, n) == UNION {[1..k -> chars] : k \in 0..n}

\* The printable ASCII characters, in strings of twelve.
AsciiRows ==
    {SubSeq(Ascii, i, IF i + 11 <= Len(Ascii) THEN i + 11 ELSE Len(Ascii)) :
        i \in {j \in 1..Len(Ascii) : j % 12 = 1}}

\* Inputs of the README and of the documented examples, one that a rule of
\* two atoms has to pass over twice, and the printable characters.
ExampleInputs ==
    {<<"a", "b", "-", "1", "2", "3">>,
     <<"1", "2", ",", "3", "4", "5", ".", "6", "7", "a", "b", "c">>,
     <<"1", "1", "]", "]">>}
        \cup AsciiRows
\* Fragments of the README and of the documentation of sanitizeInput, and a
\* range out of order.
ExampleFragments ==
    {<<"0", "-", "9", ".", "/">>,
     <<"A", "-", "Z">>,
     <<"A", "-", "Z", "0", "-", "9">>,
     <<"z", "-", "a">>}

\* The first argument of sanitizeInput: strings, and values that are not.
Inputs ==
    {Str(s) : s \in StringsUpTo(InputChars, MaxLen) \cup ExampleInputs}
        \cup {Num(<<"4", "2">>), Null, Undefined, Obj(<<>>)}

Fragments == (StringsUpTo(FragChars, MaxFrag) \ {<<>>}) \cup ExampleFragments

ZIPCODE == <<"z", "i", "p", "c", "o", "d", "e">>
PRODUCTCODE == <<"p", "r", "o", "d", "u", "c", "t", "C", "o", "d", "e">>

TypeNames == {TEXT, NUMBER, EMAIL, URL, ZIPCODE, PRODUCTCODE, CONSTRUCTOR, <<>>}

\* The second argument of sanitizeInput: omitted, a string, an object with
\* type, allow, both or neither, null, a number.
Configs ==
    {Undefined, Null, Num(<<"4", "2">>), Obj(<<>>), Obj([k \in {TYPE} |-> Str(NUMBER)])}
        \cup {Str(n) : n \in TypeNames}
        \cup {Obj([k \in {ALLOW} |-> Str(f)]) : f \in Fragments \cup {<<>>}}
        \cup {Obj([k \in {TYPE, ALLOW} |-> IF k = TYPE THEN Str(NUMBER) ELSE Str(f)]) :
                f \in Fragments \cup {<<>>}}

\* The mapping of the README's call of setPresets.
ReadmePresets ==
    [k \in {NUMBER, TEXT, ZIPCODE} |->
        CASE k = NUMBER -> Literal(<<"[", "^", "0", "-", "9", ".", ",", "]">>)
          [] k = TEXT -> Literal(<<"[", "^", "a", "-", "z", "A", "-", "Z", "\\", "s", "]">>)
          [] k = ZIPCODE -> Literal(<<"[", "^", "0", "-", "9", "-", "]">>)]

\* The argument of setPresets: objects, and values that are none.
PresetArgs ==
    {Obj(ReadmePresets), Obj(<<>>),
     Null, Undefined, Num(<<"4", "2">>), Str(<<"a", "b">>), Fun(ObjectSource)}

\* ------------------------------------------------------- the state machine

VARIABLES
    PRESETS,   \* the own properties of the module's registry
    console,   \* the console method the last call used: "none", "log", "error"
    input,     \* the value typed into the field
    config,    \* the configuration of the field
    result,    \* what sanitizeInput(input, config) returned last, and the registry it ran with
    again,     \* what sanitizeInput(result.safeValue, config) returned last, and its registry
    call       \* the function called last: "none", "sanitizeInput", "setPresets"

vars == <<PRESETS, console, input, config, result, again, call>>

NoResult == [kind |-> "none", safeValue |-> <<>>, removedCount |-> 0, presets |-> <<>>]

\* A result with the registry the call ran with.
Under(r, P) ==
    [kind |-> r.kind, safeValue |-> r.safeValue, removedCount |-> r.removedCount,
     presets |-> P]

Init ==
    /\ PRESETS = DefaultPresets
    /\ console = "none"
    /\ input \in Inputs
    /\ config \in Configs
    /\ result = NoResult
    /\ again = NoResult
    /\ call = "none"

\* The state after sanitizeInput gave r.
Called(r) ==
    /\ PRESETS' = r.presets
    /\ console' = r.console
    /\ call' = "sanitizeInput"
    /\ UNCHANGED <<input, config>>

\* The change handler: sanitizeInput(input, config).
Sanitize ==
    /\ \E r \in {sanitizeInput(input, config, PRESETS)} :
          Called(r) /\ result' = Under(r.result, PRESETS)
    /\ again' = NoResult

\* The next change event of the controlled field, whose value is the
\* safeValue set before: sanitizeInput(safeValue, config).
Resanitize ==
    /\ result.kind = "return"
    /\ \E r \in {sanitizeInput(Str(result.safeValue), config, PRESETS)} :
          Called(r) /\ again' = Under(r.result, PRESETS)
    /\ UNCHANGED result

\* setPresets(newPresets)
SetPresets(newPresets) ==
    /\ \E r \in {setPresets(newPresets, PRESETS)} :
          PRESETS' = r.presets /\ console' = r.console
    /\ call' = "setPresets"
    /\ UNCHANGED <<input, config, result, again>>

Configure == \E newPresets \in PresetArgs : SetPresets(newPresets)

Next == Sanitize \/ Resanitize \/ Configure

Spec == Init /\ [][Next]_vars

\* ---------------------------------------------------------------- claims

\* s without the characters the one-atom rule rx matches.
Stripped(rx, s) ==
    SelectSeq(s, LAMBDA c : ~((Code(c) \in rx.atoms[1].codes) # rx.atoms[1].neg))

\* The value a call returned, without the registry recorded with it.
Value(r) == [kind |-> r.kind, safeValue |-> r.safeValue, removedCount |-> r.removedCount]

\* The registry with every rule's lastIndex at 0, as when the rules were made.
Fresh(P) == [k \in DOMAIN P |-> WithLastIndex(P[k], 0)]

LowerCase == {"a", "b", "c", "d", "e", "f", "g", "h", "i", "j", "k", "l", "m", "n", "o", "p", "q", "r", "s", "t", "u", "v", "w", "x", "y", "z"}
UpperCase == {"A", "B", "C", "D", "E", "F", "G", "H", "I", "J", "K", "L", "M", "N", "O", "P", "Q", "R", "S", "T", "U", "V", "W", "X", "Y", "Z"}
DecimalDigits == {"0", "1", "2", "3", "4", "5", "6", "7", "8", "9"}

\* The characters each built-in preset keeps, as the preset table states them.
Keeps(name, c) ==
    CASE name = TEXT -> c \notin {"'", "\"", "<", ">", "&", "/"}
      [] name = NUMBER -> c \in DecimalDigits
      [] name = EMAIL -> c \in LowerCase \cup UpperCase \cup DecimalDigits \cup {"@", ".", "_", "-"}
      [] name = URL -> c \in LowerCase \cup UpperCase \cup DecimalDigits
                              \cup {".", "_", "-", "/", ":", "?", "=", "&", "%"}

\* The built-in preset a bare name or an omitted config asks for.
BuiltIn(c) == IF c = Undefined THEN TEXT ELSE c.s

IsBuiltIn(c) == c = Undefined \/ (c.t = "string" /\ c.s \in {TEXT, NUMBER, EMAIL, URL})

\* C1: with the built-in presets in place, sanitizeInput of a string under a
\* built-in preset name (or no config, meaning text) returns the string
\* without the characters the preset removes, the others in their order, and
\* removedCount is the number of characters removed.
C1_BuiltInPresets ==
    (result.kind # "none" /\ input.t = "string" /\ IsBuiltIn(config)
        /\ result.presets = DefaultPresets)
    => /\ result.kind = "return"
       /\ result.safeValue = SelectSeq(input.s, LAMBDA c : Keeps(BuiltIn(config), c))
       /\ result.removedCount =
            Cardinality({i \in 1..Len(input.s) : ~Keeps(BuiltIn(config), input.s[i])})

C1_Witness ==
    /\ input = Str(<<"<", "<">>) /\ config = Undefined
    /\ result.kind = "return" /\ result.safeValue = <<>> /\ result.removedCount = 2

\* The allow fragment of a config, <<>> when it has none.
AllowOf(c) ==
    IF c.t = "object" /\ ALLOW \in DOMAIN c.own THEN c.own[ALLOW].s ELSE <<>>

\* Whether new RegExp accepts the fragment.
CanBuild(f) == NewRegExp(Template(Str(f))).ok

\* C2: for a config whose allow fragment can be built into a rule, safeValue
\* is the input without the characters outside one set of characters (the set
\* the fragment denotes), removedCount counts them, and the result is the one
\* the fragment alone gives under the built-in registry, whatever config.type
\* and the registry are; "ab-123" with allow "0-9./" gives "123" and 3.
C2_AllowWhitelist ==
    (result.kind # "none" /\ input.t = "string" /\ AllowOf(config) # <<>>
        /\ CanBuild(AllowOf(config)))
    => /\ result.kind = "return"
       /\ (input.s = <<"a", "b", "-", "1", "2", "3">>
             /\ AllowOf(config) = <<"0", "-", "9", ".", "/">>)
            => Value(result) = Return(<<"1", "2", "3">>, 3)
       /\ \E allowed \in SUBSET {input.s[i] : i \in 1..Len(input.s)} :
            /\ result.safeValue = SelectSeq(input.s, LAMBDA c : c \in allowed)
            /\ result.removedCount =
                 Cardinality({i \in 1..Len(input.s) : input.s[i] \notin allowed})
       /\ Value(result) =
            sanitizeInput(input, Obj([k \in {ALLOW} |-> Str(AllowOf(config))]),
                          DefaultPresets).result

\* C3: for a string and a config that is a preset name, an object with a type
\* or an object with an allow fragment, sanitizing the safeValue again under
\* the same config and an unchanged registry returns it unchanged, with
\* removedCount 0.
C3_Idempotent ==
    (again.kind # "none" /\ again.presets = result.presets
        /\ input.t = "string" /\ config.t \in {"string", "object"})
    => /\ again.kind = "return"
       /\ again.safeValue = result.safeValue
       /\ again.removedCount = 0

\* C4: a call of sanitizeInput with an input that is not a string returns
\* { safeValue: "", removedCount: 0 }, whatever the config and the registry,
\* and leaves the registry as it was.
C4_NotAString ==
    [][(input.t # "string" /\ Sanitize)
        => /\ Value(result') = Return(<<>>, 0)
           /\ PRESETS' = PRESETS
           /\ console' = "none"]_vars

C4_Witness ==
    /\ input = Null /\ config = Null /\ call = "sanitizeInput"
    /\ Value(result) = Return(<<>>, 0)
    /\ PRESETS # DefaultPresets

\* C5: sanitizeInput of a string returns a result, whatever is passed as the
\* config, and raises no exception.
C5_NeverRaises ==
    (result.kind # "none" /\ input.t = "string") => result.kind = "return"

\* C6: for a config whose allow fragment cannot be built into a rule,
\* sanitizeInput returns what the text preset of the registry gives for the
\* input, whatever config.type is.
C6_InvalidAllow ==
    (result.kind # "none" /\ input.t = "string" /\ AllowOf(config) # <<>>
        /\ ~CanBuild(AllowOf(config)))
    => /\ result.kind = "return"
       /\ result.safeValue = Stripped(result.presets[TEXT], input.s)
       /\ result.removedCount = Len(input.s) - Len(result.safeValue)

C6_Witness ==
    /\ input = Str(<<"a", "<">>)
    /\ config = Obj([k \in {TYPE, ALLOW} |-> IF k = TYPE THEN Str(NUMBER) ELSE Str(<<"\\">>)])
    /\ Value(result) = Return(<<"a">>, 1)
    /\ result.presets[TEXT] = DefaultPresets[TEXT]
    /\ console = "error"

\* What sanitizeInput gives a string under a bare name the registry holds.
AppliesRegistered ==
    (result.kind # "none" /\ input.t = "string" /\ config.t = "string"
        /\ config.s \in DOMAIN result.presets)
    => Value(result) = Return(Stripped(result.presets[config.s], input.s),
                              Len(input.s) - Len(Stripped(result.presets[config.s], input.s)))

\* The README's example: number overridden to allow digits, '.' and ','.
OverrideExample ==
    (result.kind # "none" /\ config = Str(NUMBER)
        /\ input = Str(<<"1", "2", ",", "3", "4", "5", ".", "6", "7", "a", "b", "c">>)
        /\ result.presets[NUMBER] = ReadmePresets[NUMBER])
    => Value(result) = Return(<<"1", "2", ",", "3", "4", "5", ".", "6", "7">>, 3)

\* C7: setPresets with an object maps every name of the object to the
\* object's rule and leaves every other name with the rule it had; results
\* returned before stay as they are, and every call of sanitizeInput made
\* after applies the rule the registry then holds.
C7_Merge ==
    [][/\ call' = "setPresets"
            => \A p \in PresetArgs : (p.t = "object" /\ SetPresets(p))
                 => /\ DOMAIN PRESETS' = DOMAIN PRESETS \cup DOMAIN p.own
                    /\ \A k \in DOMAIN p.own : PRESETS'[k] = p.own[k]
                    /\ \A k \in DOMAIN PRESETS \ DOMAIN p.own : PRESETS'[k] = PRESETS[k]
                    /\ result' = result /\ again' = again
       /\ call' = "sanitizeInput" => AppliesRegistered' /\ OverrideExample']_vars

C7_Witness ==
    /\ config = Str(NUMBER)
    /\ input = Str(<<"1", "2", ",", "3", "4", "5", ".", "6", "7", "a", "b", "c">>)
    /\ result.kind = "return"
    /\ result.presets[NUMBER] = ReadmePresets[NUMBER]
    /\ result.presets[EMAIL] = DefaultPresets[EMAIL]
    /\ Value(result) = Return(<<"1", "2", ",", "3", "4", "5", ".", "6", "7">>, 3)

\* C8: setPresets with null or a value that is no object (a number, a string,
\* undefined, a function) returns with the registry as it was, which is the
\* registry every later call of sanitizeInput reads.
C8_InvalidPresets ==
    [][call' = "setPresets"
         => \A p \in PresetArgs : (p.t # "object" /\ SetPresets(p))
              => /\ PRESETS' = PRESETS
                 /\ console' = "error"
                 /\ result' = result /\ again' = again]_vars

C8_Witness ==
    /\ call = "setPresets" /\ console = "error"
    /\ PRESETS = Spread(DefaultPresets, Obj(ReadmePresets))
    /\ result.kind = "return"

\* The preset name of a config without allow: a bare string, or the type of
\* an object; <<>> when there is none.
NameOf(c) ==
    CASE c.t = "string" -> c.s
      [] c.t = "object" /\ TYPE \in DOMAIN c.own -> c.own[TYPE].s
      [] OTHER -> <<>>

\* C9: without allow, a type that is absent, empty or not a name registered in
\* the registry gives the result of the text preset, and a registered name
\* gives the result of the rule registered under it.
C9_Resolution ==
    (result.kind = "return" /\ input.t = "string" /\ AllowOf(config) = <<>>)
    => /\ result.safeValue =
            Stripped(IF NameOf(config) \in DOMAIN result.presets
                     THEN result.presets[NameOf(config)]
                     ELSE result.presets[TEXT], input.s)
       /\ result.removedCount = Len(input.s) - Len(result.safeValue)

====
